---------------------------- MODULE Spec2Model ----------------------------
(***************************************************************************)
(* Gapless network data: the gap monitor (GapScanner, GapTracker,          *)
(* HealthReporter; deployment/gcp-functions/gap-monitor/main.py) and the   *)
(* real-time collector (StreamIngestor, RecordBuffer, BatchFlusher;        *)
(* deployment/vm/realtime_collector.py).                                   *)
(*                                                                         *)
(* MonitorSpec   : scan + track + notify cycles over a growing sink.       *)
(* CollectorSpec : the collector's main thread, batch flusher thread and   *)
(*                 signal handler over the shared block buffer.            *)
(* IngestSpec    : the collector's main thread alone, message by message   *)
(*                 and fetch attempt by fetch attempt (IngestFairSpec:     *)
(*                 with weak fairness of its steps).                       *)
(* ScanSpec      : one call of detect_gaps_clickhouse over a given sink.   *)
(***************************************************************************)
EXTENDS Integers, Sequences, FiniteSets, TLC

VARIABLES
    \* ---- shared: the analytical sink (blocks table, FINAL view)
    sink,               \* set of block numbers present
    latest_timestamp,   \* MAX(timestamp) of the blocks table
    \* ---- gap monitor
    gap_tracking,       \* gap_tracking table, FINAL view: <<gap_start, gap_end>> -> row
    now,                \* `now` of the most recent monitor() invocation
    cycles,             \* number of monitor() invocations so far
    gaps,               \* list detect_gaps_clickhouse returned in the last cycle
    tracked_gap_keys,   \* the set process_gap_tracking built from get_tracked_gaps
    new_gaps,           \* lists returned by the last process_gap_tracking
    persistent_gaps,
    resolved_gaps,
    sent,               \* Pushover notifications delivered by the last cycle
    pings,              \* Healthchecks.io pings attempted by the last cycle
    status,             \* HTTP status returned by the last cycle (0 before the first)
    error,              \* what raised in a cycle that returned 503 ("" otherwise)
    inv,                \* per trigger of monitor(): the invocation in progress, when
                        \* invocations of the two triggers may overlap
    \* ---- history of the scans (not program state)
    observed,           \* for each range of the latest scan: the first scan of the
                        \* current uninterrupted run of scans containing it, the
                        \* latest scan, the 'persistent' notifications produced since
    gone,               \* for each range that was tracked with notified = true when a
                        \* scan first found it absent, and absent in every scan
                        \* since: the scans and 'resolved' notifications since
    \* ---- real-time collector: module globals
    BATCH_INTERVAL_SECONDS, \* configuration: 0 = immediate writes, > 0 = batching
    block_buffer,       \* list of buffered blocks (block numbers)
    buffer_lock,        \* owner of buffer_lock: "free", "main", "flusher", "handler"
    shutdown_requested,
    expected_next_block,
    missed_blocks,
    \* ---- real-time collector: control state
    mpc,                \* position of the main thread (asyncio loop)
    msg,                \* block number of the notification being processed
    blk,                \* block number of the tuple handed to insert_block
    ret,                \* caller of insert_block: "subscribe" or "backfill"
    bf_next,            \* loop variable block_num of backfill_inline
    retry_count,        \* main_loop
    attempt_number,     \* fetch_full_block's retry: attempts made by the call in progress
    fb,                 \* per caller of flush_buffer: position and blocks_to_insert
    fpc,                \* position of batch_flush_worker
    consecutive_failures,
    hpc,                \* graceful_shutdown: "idle", "running", "done"
    exited,             \* the process has exited
    exit_code,
    received,           \* notifications taken from the WebSocket so far
    faults,             \* failures injected so far (fetches, sink writes)
    \* ---- history of the collector (not program state)
    outstanding,        \* per block number: records appended to the buffer and not
                        \* yet written to the sink or dropped at exit
    resolved_keys,      \* block numbers whose full record was fetched
    bf_log,             \* the backfill_inline call in progress: per block_num tried,
                        \* in order, what became of it
    failed_writes,      \* block numbers of failed sink writes, not written since
    buffer_at_signal,   \* block_buffer when the termination signal arrived
    inflight_at_signal, \* records of the batch the flusher had drained at the signal
    \* ---- MempoolCollector.collect_snapshot: one call
    mp_attempt,         \* retry_state.attempt_number of the attempt in progress
    mp_result,          \* "running", "snapshot", or the class of the exception raised
    mp_responses        \* history: per attempt made, the responses of the two endpoints

monitorVars == <<gap_tracking, now, cycles, gaps, tracked_gap_keys, new_gaps,
                 persistent_gaps, resolved_gaps, sent, pings, status, error, inv,
                 observed, gone>>
sinkVars == <<sink, latest_timestamp>>
mempoolVars == <<mp_attempt, mp_result, mp_responses>>
collectorVars == <<mempoolVars, BATCH_INTERVAL_SECONDS, block_buffer, buffer_lock, shutdown_requested,
                   expected_next_block, missed_blocks, mpc, msg, blk, ret, bf_next,
                   retry_count, attempt_number, bf_log, fb, fpc, consecutive_failures, hpc, exited, exit_code,
                   received, faults, outstanding, resolved_keys, failed_writes,
                   buffer_at_signal, inflight_at_signal>>

-----------------------------------------------------------------------------
(* Bounds of the model *)

NumKeys == 4        \* block numbers 0 .. NumKeys-1
MaxCycles == 4      \* monitor() invocations per behaviour

Keys == 0 .. (NumKeys - 1)
Steps == {900, 1801}    \* seconds between two monitor() invocations

-----------------------------------------------------------------------------
(* Program constants of the gap monitor *)

GAP_DETECTION_LIMIT == 20
STALENESS_THRESHOLD_SECONDS == 960
GAP_GRACE_PERIOD_SECONDS == 1800

-----------------------------------------------------------------------------
(* Helpers *)

\* (the first conjunct only spares the comparison with every element for most x)
Max(S) == CHOOSE x \in S : (x + 1) \notin S /\ \A y \in S : y <= x
Min(S) == CHOOSE x \in S : (x - 1) \notin S /\ \A y \in S : x <= y
Range(s) == {s[i] : i \in 1 .. Len(s)}

\* all orderings of a finite set as sequences without repetition
RECURSIVE Orderings(_)
Orderings(S) ==
    IF S = {} THEN {<<>>}
    ELSE UNION {{<<x>> \o o : o \in Orderings(S \ {x})} : x \in S}

\* f'{n:,}': the decimal text of n in groups of three digits
RECURSIVE FormatThousands(_)
FormatThousands(n) ==
    IF n < 1000 THEN <<n>> ELSE Append(FormatThousands(n \div 1000), n % 1000)

\* int(text.strip().replace(',', '')): the groups read back as one number
RECURSIVE ParseThousands(_)
ParseThousands(groups) ==
    IF Len(groups) = 0 THEN 0
    ELSE ParseThousands(SubSeq(groups, 1, Len(groups) - 1)) * 1000 + groups[Len(groups)]

-----------------------------------------------------------------------------
(* GapScanner: detect_gaps_clickhouse *)

\* lagInFrame(number, 1) OVER (ORDER BY number ...): the previous number, and the
\* column type's default (0) on the first row
LagInFrame(s, n) ==
    IF (n - 1) \in s THEN n - 1
    ELSE IF \E m \in s : m < n THEN Max({m \in s : m < n}) ELSE 0

\* the rows of the block_gaps CTE that pass WHERE gap_size > 0
GapRows(s) ==
    {[start_missing |-> LagInFrame(s, n) + 1,
      end_missing   |-> n - 1,
      gap_size      |-> n - LagInFrame(s, n) - 1] :
        n \in {m \in s : m - LagInFrame(s, m) - 1 > 0}}

\* ORDER BY gap_size DESC: every order of the rows by descending gap_size (rows of
\* equal size come in any order)
RECURSIVE BySizeDesc(_)
BySizeDesc(rows) ==
    IF rows = {} THEN {<<>>}
    ELSE LET largest == Max({r.gap_size : r \in rows})
         IN  UNION {{<<r>> \o o : o \in BySizeDesc(rows \ {r})} :
                        r \in {x \in rows : x.gap_size = largest}}

\* ORDER BY gap_size DESC LIMIT GAP_DETECTION_LIMIT: the row lists the query may
\* return
GapQueryResults(s) ==
    LET rows == GapRows(s)
        kept == IF Cardinality(rows) < GAP_DETECTION_LIMIT
                THEN Cardinality(rows) ELSE GAP_DETECTION_LIMIT
    IN  {SubSeq(o, 1, kept) : o \in BySizeDesc(rows)}

\* the pieces of a description text: words, and numbers as their digit groups
Word(w) == [kind |-> "word", text |-> w, groups |-> <<>>]
Number(g) == [kind |-> "number", text |-> "", groups |-> g]
IsWord(tok, w) == tok.kind = "word" /\ tok.text = w

\* the gap dict built from one result row:
\* f'{gap_size} blocks missing: {start_missing:,} to {end_missing:,}'
GapDict(row) ==
    [block_number |-> row.start_missing,
     gap_type     |-> "missing_block",
     description  |-> <<Number(<<row.gap_size>>), Word("blocks"), Word("missing:"),
                        Number(FormatThousands(row.start_missing)), Word("to"),
                        Number(FormatThousands(row.end_missing))>>]

\* SELECT COUNT(*), MIN(number), MAX(number) FROM blocks FINAL.  Over an empty table
\* MIN and MAX are the column type's default 0, or NULL (None in Python) when the
\* server returns NULL for aggregates over no rows (null_for_empty).
BlockStats(s, null_for_empty) ==
    [total     |-> Cardinality(s),
     is_none   |-> s = {} /\ null_for_empty,
     min_block |-> IF s = {} THEN 0 ELSE Min(s),
     max_block |-> IF s = {} THEN 0 ELSE Max(s)]

\* detect_gaps_clickhouse over sink content s: raises (the print of
\* f"{min_block:,}" when min_block is None), or the gap lists it may return
detect_gaps_clickhouse(s, null_for_empty) ==
    LET st       == BlockStats(s, null_for_empty)
        expected == IF ~st.is_none THEN st.max_block - st.min_block + 1 ELSE 0
        missing  == expected - st.total
    IN  [raises  |-> st.is_none,
         results |-> IF st.is_none THEN {}
                     ELSE IF missing > 0
                     THEN {[i \in 1 .. Len(rows) |-> GapDict(rows[i])] :
                                rows \in GapQueryResults(s)}
                     ELSE {<<>>}]

\* the gap lists detect_gaps_clickhouse may return for sink content s
DetectGaps(s) == detect_gaps_clickhouse(s, FALSE).results

-----------------------------------------------------------------------------
(* GapTracker: the gap_tracking table *)

\* INSERT into the ReplacingMergeTree keyed by (gap_start, gap_end): the row with the
\* latest last_seen is the one FINAL returns
InsertRow(tbl, key, row) ==
    IF key \in DOMAIN tbl /\ tbl[key].last_seen > row.last_seen
    THEN tbl
    ELSE [k \in DOMAIN tbl \cup {key} |-> IF k = key THEN row ELSE tbl[k]]

\* get_tracked_gaps: the rows of the table, in any order
TrackedRow(tbl, key) ==
    [gap_start |-> key[1], gap_end |-> key[2], gap_size |-> tbl[key].gap_size,
     first_seen |-> tbl[key].first_seen, last_seen |-> tbl[key].last_seen,
     notified |-> tbl[key].notified]

GetTrackedGaps(tbl) ==
    {[i \in 1 .. Len(o) |-> TrackedRow(tbl, o[i])] : o \in Orderings(DOMAIN tbl)}

\* mutant: the update stamps first_seen with the time of the scan
upsert_gap_tracking_restamping(tbl, gap_start, gap_end, gap_size, t) ==
    InsertRow(tbl, <<gap_start, gap_end>>,
              [gap_size |-> gap_size, first_seen |-> t, last_seen |-> t,
               notified |-> FALSE])

upsert_gap_tracking(tbl, gap_start, gap_end, gap_size, t) ==
    LET key == <<gap_start, gap_end>> IN
    IF key \in DOMAIN tbl
    THEN InsertRow(tbl, key, [gap_size |-> gap_size, first_seen |-> tbl[key].first_seen,
                              last_seen |-> t, notified |-> FALSE])
    ELSE InsertRow(tbl, key, [gap_size |-> gap_size, first_seen |-> t,
                              last_seen |-> t, notified |-> FALSE])

mark_gap_notified(tbl, gap_start, gap_end, t) ==
    LET key == <<gap_start, gap_end>> IN
    IF key \in DOMAIN tbl
    THEN InsertRow(tbl, key, [gap_size |-> gap_end - gap_start + 1,
                              first_seen |-> tbl[key].first_seen,
                              last_seen |-> t, notified |-> TRUE])
    ELSE tbl

\* mutant: the ALTER TABLE ... DELETE removes nothing
delete_gap_tracking_noop(tbl, gap_start, gap_end) == tbl

delete_gap_tracking(tbl, gap_start, gap_end) ==
    [k \in DOMAIN tbl \ {<<gap_start, gap_end>>} |-> tbl[k]]

-----------------------------------------------------------------------------
(* GapTracker: process_gap_tracking *)

\* 'to' in desc
HasTo(desc) == \E i \in 1 .. Len(desc) : IsWord(desc[i], "to")

\* int(desc.split('to')[-1].strip().replace(',', ''))
ParseEndBlock(desc) ==
    ParseThousands(desc[Max({i \in 1 .. Len(desc) : IsWord(desc[i], "to")}) + 1].groups)

\* the set built at the top of process_gap_tracking:
\* (g['block_number'], g.get('end_block', g['block_number']))
CurrentGapKeys(current_gaps) ==
    {<<g.block_number,
       IF "end_block" \in DOMAIN g THEN g.end_block ELSE g.block_number>> :
        g \in Range(current_gaps)}

\* the loop "for gap in current_gaps", from index i on; acc holds the table and the
\* two lists built so far
RECURSIVE ProcessCurrentGaps(_, _, _, _, _)
ProcessCurrentGaps(current_gaps, i, tracked_gaps, t, acc) ==
    IF i > Len(current_gaps) THEN acc
    ELSE
    LET gap       == current_gaps[i]
        gap_start == gap.block_number
        gap_end   == IF HasTo(gap.description)
                     THEN ParseEndBlock(gap.description) ELSE gap_start
        gap_size  == gap_end - gap_start + 1
        matches   == {j \in 1 .. Len(tracked_gaps) :
                        <<tracked_gaps[j].gap_start, tracked_gaps[j].gap_end>>
                            = <<gap_start, gap_end>>}
    IN  IF matches = {}
        THEN ProcessCurrentGaps(current_gaps, i + 1, tracked_gaps, t,
                [acc EXCEPT
                    !.new_gaps = Append(@, [gap_start |-> gap_start, gap_end |-> gap_end,
                                            gap_size |-> gap_size]),
                    !.tbl = upsert_gap_tracking(@, gap_start, gap_end, gap_size, t)])
        ELSE
        LET tracked     == tracked_gaps[Min(matches)]
            age_seconds == t - tracked.first_seen
        IN  IF age_seconds > GAP_GRACE_PERIOD_SECONDS /\ ~tracked.notified
            THEN ProcessCurrentGaps(current_gaps, i + 1, tracked_gaps, t,
                    [acc EXCEPT
                        !.persistent_gaps =
                            Append(@, [gap_start |-> gap_start, gap_end |-> gap_end,
                                       gap_size |-> gap_size,
                                       first_seen |-> tracked.first_seen,
                                       age_seconds |-> age_seconds]),
                        !.tbl = mark_gap_notified(@, gap_start, gap_end, t)])
            ELSE ProcessCurrentGaps(current_gaps, i + 1, tracked_gaps, t,
                    [acc EXCEPT
                        !.tbl = upsert_gap_tracking(@, gap_start, gap_end, gap_size, t)])

\* is a tracked row classified resolved: "if key not in current_gap_keys"
IsResolved(tracked, current_gap_keys) ==
    <<tracked.gap_start, tracked.gap_end>> \notin current_gap_keys

\* the loop "for tracked in tracked_gaps", from index j on
RECURSIVE ProcessResolvedGaps(_, _, _, _)
ProcessResolvedGaps(tracked_gaps, j, current_gap_keys, acc) ==
    IF j > Len(tracked_gaps) THEN acc
    ELSE
    LET tracked == tracked_gaps[j] IN
    IF IsResolved(tracked, current_gap_keys)
    THEN ProcessResolvedGaps(tracked_gaps, j + 1, current_gap_keys,
            [acc EXCEPT
                !.resolved_gaps = Append(@, tracked),
                !.tbl = delete_gap_tracking(@, tracked.gap_start, tracked.gap_end)])
    ELSE ProcessResolvedGaps(tracked_gaps, j + 1, current_gap_keys, acc)

\* process_gap_tracking(client, current_gaps, secrets, now), with tracked_gaps the
\* rows get_tracked_gaps returned; the result holds the table afterwards and the
\* three returned lists
process_gap_tracking(tbl, tracked_gaps, current_gaps, t) ==
    LET afterCurrent ==
            ProcessCurrentGaps(current_gaps, 1, tracked_gaps, t,
                [tbl |-> tbl, new_gaps |-> <<>>, persistent_gaps |-> <<>>,
                 resolved_gaps |-> <<>>])
    IN  ProcessResolvedGaps(tracked_gaps, 1, CurrentGapKeys(current_gaps), afterCurrent)

-----------------------------------------------------------------------------
(* HealthReporter and the Cloud Function entry point: monitor *)

\* check_staleness_clickhouse: is_fresh for a non-empty blocks table
IsFresh(t) == (t - latest_timestamp) <= STALENESS_THRESHOLD_SECONDS

Alert(title, key) == [title |-> title, gap |-> key]

\* Step 7 of monitor: the Pushover messages in the order they are sent
Notifications(new, persistent, resolved, is_fresh, is_healthy) ==
    LET gapAlerts ==
            [i \in 1 .. Len(resolved) |->
                Alert("GAP RESOLVED", <<resolved[i].gap_start, resolved[i].gap_end>>)]
            \o [i \in 1 .. Len(persistent) |->
                Alert("PERSISTENT GAP", <<persistent[i].gap_start, persistent[i].gap_end>>)]
            \o (IF ~is_fresh THEN <<Alert("DATA STALE", <<>>)>> ELSE <<>>)
    IN  IF is_healthy /\ Len(gapAlerts) = 0
        THEN <<Alert("HEALTHY", <<>>)>>
        ELSE gapAlerts

\* the ranges a scan result describes
ScanKeys(current_gaps) ==
    {<<g.block_number, ParseEndBlock(g.description)>> : g \in Range(current_gaps)}

\* history of the ranges of the latest scan: first observation of the current
\* uninterrupted run of scans containing the range, the latest scan, and the number
\* of 'persistent' notifications produced for it since the first observation
Observe(obs, current_gaps, persistent, t) ==
    [k \in ScanKeys(current_gaps) |->
        LET fired == IF \E i \in 1 .. Len(persistent) :
                            <<persistent[i].gap_start, persistent[i].gap_end>> = k
                     THEN 1 ELSE 0
        IN  IF k \in DOMAIN obs
            THEN [first |-> obs[k].first, last |-> t, alerts |-> obs[k].alerts + fired]
            ELSE [first |-> t, last |-> t, alerts |-> fired]]

\* history of the ranges that went absent while tracked with notified = true
Absent(g, tbl, current_gaps, resolved) ==
    LET notifiedKeys == {k \in DOMAIN tbl : tbl[k].notified}
        fired(k) == Cardinality({i \in 1 .. Len(resolved) :
                        <<resolved[i].gap_start, resolved[i].gap_end>> = k})
    IN  [k \in (DOMAIN g \cup notifiedKeys) \ ScanKeys(current_gaps) |->
            IF k \in DOMAIN g
            THEN [scans |-> g[k].scans + 1, alerts |-> g[k].alerts + fired(k)]
            ELSE [scans |-> 1, alerts |-> fired(k)]]

\* ping_healthchecks(ping_url, diagnostic_data, is_healthy): the endpoint posted to,
\* relative to HEALTHCHECKS_PING_URL (set in the deployment)
\* mutant: the plain ping URL whatever the verdict
PingEndpoint_untagged(is_healthy) == ""

PingEndpoint(is_healthy) == IF is_healthy THEN "" ELSE "/fail"

Ping(endpoint, delivered) == [endpoint |-> endpoint, delivered |-> delivered]

\* the except branch of monitor: one POST to <ping url>/fail, delivered or not; when
\* it raises, "except Exception: pass" keeps the original error
FailPings == {<<Ping("/fail", delivered)>> : delivered \in BOOLEAN}

\* a cycle that ends in the except branch before process_gap_tracking has run: a
\* query fails
MonitorScanFailed(d) ==
    /\ cycles < MaxCycles
    /\ now' = now + d
    /\ cycles' = cycles + 1
    /\ new_gaps' = <<>>
    /\ persistent_gaps' = <<>>
    /\ resolved_gaps' = <<>>
    /\ gaps' = <<>>
    /\ tracked_gap_keys' = {}
    /\ sent' = <<>>
    /\ pings' \in FailPings
    /\ status' = 503
    /\ error' = "query"
    /\ UNCHANGED <<gap_tracking, inv, observed, gone, sinkVars, collectorVars>>

\* a cycle over an empty table when MAX(number) comes back as None: Step 3,
\* check_staleness_clickhouse, raises ValueError("No blocks found ..."), and the
\* except branch of monitor returns 503
MonitorNoBlocks(d) ==
    /\ cycles < MaxCycles
    /\ BlockStats(sink, TRUE).is_none
    /\ now' = now + d
    /\ cycles' = cycles + 1
    /\ new_gaps' = <<>>
    /\ persistent_gaps' = <<>>
    /\ resolved_gaps' = <<>>
    /\ gaps' = <<>>
    /\ tracked_gap_keys' = {}
    /\ sent' = <<>>
    /\ pings' \in FailPings
    /\ status' = 503
    /\ error' = "no_blocks"
    /\ UNCHANGED <<gap_tracking, inv, observed, gone, sinkVars, collectorVars>>

\* a cycle whose queries succeed: staleness, scan, tracking, notifications, verdict.
\* Over an empty table whose aggregates come back as the type defaults,
\* MAX(timestamp) is 1970-01-01 and the data is stale.
\* sendFail = i > 0: the i-th send_pushover_notification raises; pingOk: the POST of
\* ping_healthchecks succeeds, otherwise raise_for_status raises and the cycle ends in
\* the except branch.  (r, is_fresh, is_healthy and alerts are each one value,
\* bound once for the step.)
MonitorCycle(d, tracked_gaps, current_gaps) ==
    /\ cycles < MaxCycles
    /\ \E r \in {process_gap_tracking(gap_tracking, tracked_gaps, current_gaps, now + d)} :
       \E is_fresh \in {sink # {} /\ IsFresh(now + d)} :
       \E is_healthy \in {is_fresh /\ Len(r.persistent_gaps) = 0} :
       \E alerts \in {Notifications(r.new_gaps, r.persistent_gaps, r.resolved_gaps,
                                    is_fresh, is_healthy)} :
          /\ now' = now + d
          /\ cycles' = cycles + 1
          /\ gap_tracking' = r.tbl
          /\ new_gaps' = r.new_gaps
          /\ persistent_gaps' = r.persistent_gaps
          /\ resolved_gaps' = r.resolved_gaps
          /\ gaps' = current_gaps
          /\ tracked_gap_keys' =
                  {<<g.gap_start, g.gap_end>> : g \in Range(tracked_gaps)}
          /\ observed' = Observe(observed, current_gaps, r.persistent_gaps, now + d)
          /\ gone' = Absent(gone, gap_tracking, current_gaps, r.resolved_gaps)
          /\ \/ \E sendFail \in 1 .. Len(alerts) :
                  /\ sent' = SubSeq(alerts, 1, sendFail - 1)
                  /\ pings' \in FailPings
                  /\ status' = 503
                  /\ error' = "pushover"
             \/ /\ sent' = alerts
                /\ \E pingOk \in BOOLEAN :
                      IF pingOk
                      THEN /\ pings' = <<Ping(PingEndpoint(is_healthy), TRUE)>>
                           /\ status' = IF is_healthy THEN 200 ELSE 500
                           /\ error' = ""
                      ELSE /\ pings' \in {<<Ping(PingEndpoint(is_healthy), FALSE)>> \o p :
                                              p \in FailPings}
                           /\ status' = 503
                           /\ error' = "healthchecks"
          /\ UNCHANGED <<inv, sinkVars, collectorVars>>

monitor ==
    /\ cycles < MaxCycles
    /\ \E d \in Steps :
          \/ MonitorScanFailed(d)
          \/ MonitorNoBlocks(d)
          \/ \E tracked_gaps \in GetTrackedGaps(gap_tracking),
                current_gaps \in DetectGaps(sink) :
                  MonitorCycle(d, tracked_gaps, current_gaps)

\* a writer (the collector's flush, a backfill job) inserts block k into the sink;
\* block timestamps grow with block numbers
SinkInsert(k) ==
    /\ k \notin sink
    /\ sink' = sink \cup {k}
    /\ latest_timestamp' = IF sink = {} \/ k > Max(sink) THEN now ELSE latest_timestamp
    /\ UNCHANGED <<monitorVars, collectorVars>>


\* The Cloud Function is invoked by Cloud Scheduler and, being an HTTP function, by
\* any on-demand request; nothing serialises two invocations.  Each invocation reads
\* the clock, scans the sink and reads the tracking table (the scan, then
\* get_tracked_gaps at the top of process_gap_tracking), and later writes the
\* tracking table and sends the alerts of the lists process_gap_tracking returns.
Triggers == {"scheduled", "on_demand"}

Other(p) == CHOOSE q \in Triggers : q # p

\* no invocation of the trigger is in progress and none has completed
NotInvoked ==
    [pc |-> "idle", t |-> 0, tracked_gaps |-> <<>>, current_gaps |-> <<>>,
     persistent_gaps |-> <<>>, resolved_gaps |-> <<>>, overlaps |-> FALSE]

\* an invocation by trigger p starts: now, detect_gaps_clickhouse, get_tracked_gaps.
\* overlaps: this invocation runs while one of the other trigger is in progress.
InvocationReads(p, d, tracked_gaps, current_gaps) ==
    /\ cycles < MaxCycles
    /\ inv[p].pc = "idle"
    /\ now' = now + d
    /\ cycles' = cycles + 1
    /\ inv' = [q \in Triggers |->
                IF q = p
                THEN [pc |-> "read", t |-> now + d, tracked_gaps |-> tracked_gaps,
                      current_gaps |-> current_gaps, persistent_gaps |-> <<>>,
                      resolved_gaps |-> <<>>, overlaps |-> inv[Other(p)].pc = "read"]
                ELSE IF inv[q].pc = "read" THEN [inv[q] EXCEPT !.overlaps = TRUE]
                ELSE inv[q]]
    /\ UNCHANGED <<gap_tracking, gaps, tracked_gap_keys, new_gaps, persistent_gaps,
                   resolved_gaps, sent, pings, status, error, observed, gone, sinkVars,
                   collectorVars>>

\* the invocation by trigger p goes on: the two loops of process_gap_tracking write
\* the tracking table as it is now, deciding from the rows and the scan read at the
\* start; the returned lists are the alerts Step 7 sends
InvocationWrites(p) ==
    /\ inv[p].pc = "read"
    /\ \E r \in {process_gap_tracking(gap_tracking, inv[p].tracked_gaps,
                                      inv[p].current_gaps, inv[p].t)} :
          /\ gap_tracking' = r.tbl
          /\ inv' = [inv EXCEPT ![p].pc = "idle",
                                ![p].persistent_gaps = r.persistent_gaps,
                                ![p].resolved_gaps = r.resolved_gaps]
    /\ UNCHANGED <<now, cycles, gaps, tracked_gap_keys, new_gaps, persistent_gaps,
                   resolved_gaps, sent, pings, status, error, observed, gone,
                   sinkVars, collectorVars>>

-----------------------------------------------------------------------------
(* Real-time collector: bounds, constants, helpers *)

NumBlocks == 3          \* notifications carry block numbers 1 .. NumBlocks
MaxMessages == 2        \* notifications per behaviour
MaxFlushFailures == 12     \* failed batch writes per behaviour of FlusherSpec
MaxFaults == 1          \* failing fetches and sink writes per behaviour

BatchIntervals == {0, 300}      \* BATCH_INTERVAL_SECONDS: immediate mode, the default
Callers == {"main", "flusher", "handler"}   \* who calls flush_buffer

NoBlock == -1                   \* expected_next_block = None
MAX_RETRY_ATTEMPTS == 3
INLINE_BACKFILL_THRESHOLD == 5
MAX_CONSECUTIVE_FAILURES == 10
max_retries == 3

\* block numbers of the notifications
Blocks == 1 .. NumBlocks

\* block numbers of the notifications when the main thread is checked alone
MaxBlock == 8
IngestBlocks == 1 .. MaxBlock

bufVars == <<block_buffer, buffer_lock>>
cursorVars == <<expected_next_block, missed_blocks>>
mainVars == <<mpc, msg, blk, ret, bf_next, retry_count, received, attempt_number, bf_log>>
mainVarsButReceived == <<mpc, msg, blk, ret, bf_next, retry_count, attempt_number, bf_log>>
flushVars == <<fb, fpc, consecutive_failures>>
exitVars == <<shutdown_requested, hpc, exited, exit_code, buffer_at_signal, inflight_at_signal>>
histVars == <<outstanding, resolved_keys, failed_writes>>
otherVars == <<BATCH_INTERVAL_SECONDS, latest_timestamp, monitorVars, mempoolVars>>

Count(seq, k) == Len(SelectSeq(seq, LAMBDA x : x = k))

\* mutant: buffer_lock excludes nobody
CanAcquire_unlocked == TRUE

\* "with buffer_lock:" can be entered (threading.Lock, not reentrant)
CanAcquire == buffer_lock = "free"

\* mutant: nothing is tracked
track_missed_block_dropping(missed, block_number) == missed

\* track_missed_block
track_missed_block(missed, block_number) ==
    IF block_number \in Range(missed) THEN missed ELSE Append(missed, block_number)

\* for block_num in range(a, b): track_missed_block(block_num)
RECURSIVE TrackRange(_, _, _)
TrackRange(missed, a, b) ==
    IF a >= b THEN missed ELSE TrackRange(track_missed_block(missed, a), a + 1, b)

\* the main thread runs unless the signal handler is running on top of it
MainRuns == ~exited /\ hpc # "running"

CallerRuns(c) ==
    /\ ~exited
    /\ c = "main" => hpc # "running"
    /\ c = "handler" => hpc = "running"

\* a caller of flush_buffer: where it is, its blocks_to_insert, and whether
\* insert_block appended a record while its sink write was in progress
Idle == [pc |-> "idle", batch |-> <<>>, overlapped |-> FALSE]

-----------------------------------------------------------------------------
(* Process exit *)

\* the threads, their locals and the module's cursor and counters end with the
\* process; block_buffer is left as it was, to show what was not written
Gone ==
    /\ mpc' = "done"
    /\ msg' = 0
    /\ blk' = 0
    /\ ret' = "subscribe"
    /\ bf_next' = 0
    /\ retry_count' = 0
    /\ attempt_number' = 0
    /\ bf_log' = <<>>
    /\ received' = 0
    /\ faults' = 0
    /\ fpc' = IF fpc = "none" THEN fpc ELSE "stopped"
    /\ consecutive_failures' = 0
    /\ expected_next_block' = NoBlock
    /\ missed_blocks' = <<>>
    /\ buffer_lock' = "free"
    /\ UNCHANGED block_buffer

\* The process exits (sys.exit(0) of graceful_shutdown, or main() returning).  The
\* flusher is a daemon thread and is not joined; a main-thread write interrupted by
\* the signal is not resumed.  A sink insert that is in flight at that moment either
\* reached the server (delivered) or did not.
Exit(code, delivered) ==
    LET cut   == {c \in Callers : fb[c].pc \in {"write", "failed"}}
    IN  /\ delivered \subseteq {c \in Callers : fb[c].pc = "write"}
        /\ exited' = TRUE
        /\ exit_code' = code
        /\ hpc' = IF hpc = "running" THEN "done" ELSE hpc
        /\ sink' = sink \cup UNION {Range(fb[c].batch) : c \in delivered}
        /\ failed_writes' = failed_writes \ UNION {Range(fb[c].batch) : c \in delivered}
        /\ outstanding' =
                [k \in DOMAIN outstanding |->
                    outstanding[k] - Count(fb["main"].batch, k) * (IF "main" \in cut THEN 1 ELSE 0)
                                   - Count(fb["flusher"].batch, k) * (IF "flusher" \in cut THEN 1 ELSE 0)
                                   - Count(fb["handler"].batch, k) * (IF "handler" \in cut THEN 1 ELSE 0)]
        /\ fb' = [c \in Callers |-> Idle]
        /\ Gone
        /\ UNCHANGED <<shutdown_requested, buffer_at_signal, inflight_at_signal>>

-----------------------------------------------------------------------------
(* RecordBuffer / BatchFlusher: flush_buffer, by caller c *)

\* flush_buffer returns flushed, or raises, to caller c.  In batch_flush_worker the
\* return is followed by the bookkeeping of consecutive_failures, the test of
\* "while not shutdown_requested" and time.sleep(BATCH_INTERVAL_SECONDS); the
\* sleep is the time the next FlushAcquire("flusher") takes to happen.  The branch
\* "if consecutive_failures >= MAX_CONSECUTIVE_FAILURES" only prints a CRITICAL line:
\* it changes no state and sends nothing.
\* mutant: an exception of flush_buffer ends batch_flush_worker
FlushReturn_dying(c, raised, flushed) ==
    IF c = "flusher"
    THEN /\ consecutive_failures' =
                IF raised THEN consecutive_failures + 1
                ELSE IF flushed > 0 THEN 0 ELSE consecutive_failures
         /\ fpc' = IF shutdown_requested \/ raised THEN "stopped" ELSE "running"
         /\ fb' = [fb EXCEPT ![c] =
                      [Idle EXCEPT !.pc = IF shutdown_requested \/ raised
                                          THEN "idle" ELSE "acquire"]]
    ELSE /\ fb' = [fb EXCEPT ![c] =
                      [Idle EXCEPT !.pc = IF raised THEN "raised" ELSE "returned"]]
         /\ UNCHANGED <<fpc, consecutive_failures>>

FlushReturn(c, raised, flushed) ==
    IF c = "flusher"
    THEN /\ consecutive_failures' =
                IF raised THEN consecutive_failures + 1
                ELSE IF flushed > 0 THEN 0 ELSE consecutive_failures
         /\ fpc' = IF shutdown_requested THEN "stopped" ELSE "running"
         /\ fb' = [fb EXCEPT ![c] =
                      [Idle EXCEPT !.pc = IF shutdown_requested THEN "idle" ELSE "acquire"]]
    ELSE /\ fb' = [fb EXCEPT ![c] =
                      [Idle EXCEPT !.pc = IF raised THEN "raised" ELSE "returned"]]
         /\ UNCHANGED <<fpc, consecutive_failures>>

\* with buffer_lock: if not block_buffer: return 0;  blocks_to_insert = block_buffer[:]
FlushAcquire(c) ==
    /\ CallerRuns(c)
    /\ fb[c].pc = "acquire"
    /\ CanAcquire
    /\ IF block_buffer = <<>>
       THEN /\ FlushReturn(c, FALSE, 0)
            /\ UNCHANGED buffer_lock
       ELSE /\ fb' = [fb EXCEPT ![c] = [Idle EXCEPT !.pc = "clear", !.batch = block_buffer]]
            /\ buffer_lock' = c
            /\ UNCHANGED <<fpc, consecutive_failures>>
    /\ UNCHANGED <<block_buffer, cursorVars, mainVars, exitVars, histVars, faults, sink,
                   otherVars>>

\* block_buffer.clear(), end of the with block
FlushClear(c) ==
    /\ CallerRuns(c)
    /\ fb[c].pc = "clear"
    /\ block_buffer' = <<>>
    /\ buffer_lock' = "free"
    /\ fb' = [fb EXCEPT ![c].pc = "write"]
    /\ UNCHANGED <<cursorVars, mainVars, fpc, consecutive_failures, exitVars, histVars,
                   faults, sink, otherVars>>

\* flush_to_clickhouse(blocks_to_insert) returns
FlushWriteOk(c) ==
    /\ CallerRuns(c)
    /\ fb[c].pc = "write"
    /\ sink' = sink \cup Range(fb[c].batch)
    /\ outstanding' = [k \in DOMAIN outstanding |-> outstanding[k] - Count(fb[c].batch, k)]
    /\ failed_writes' = failed_writes \ Range(fb[c].batch)
    /\ FlushReturn(c, FALSE, Len(fb[c].batch))
    /\ UNCHANGED <<bufVars, cursorVars, mainVars, exitVars, resolved_keys, faults,
                   otherVars>>

\* flush_to_clickhouse(blocks_to_insert) raises; at most bound failures are injected
FlushWriteFailsUpTo(c, bound) ==
    /\ CallerRuns(c)
    /\ fb[c].pc = "write"
    /\ faults < bound
    /\ faults' = faults + 1
    /\ failed_writes' = failed_writes \cup (Range(fb[c].batch) \ sink)
    /\ fb' = [fb EXCEPT ![c].pc = "failed"]
    /\ UNCHANGED <<bufVars, cursorVars, mainVars, fpc, consecutive_failures, exitVars,
                   outstanding, resolved_keys, sink, otherVars>>

FlushWriteFails(c) == FlushWriteFailsUpTo(c, MaxFaults)

\* the re-insert of the except branch: block_buffer.extend(blocks_to_insert)
Reinsert(buffer, blocks_to_insert) == buffer \o blocks_to_insert

\* except: with buffer_lock: block_buffer.extend(blocks_to_insert); raise
FlushRebuffer(c) ==
    /\ CallerRuns(c)
    /\ fb[c].pc = "failed"
    /\ CanAcquire
    /\ block_buffer' = Reinsert(block_buffer, fb[c].batch)
    /\ FlushReturn(c, TRUE, 0)
    /\ UNCHANGED <<buffer_lock, cursorVars, mainVars, exitVars, histVars, faults, sink,
                   otherVars>>

-----------------------------------------------------------------------------
(* BlockStreamer: subscribe_to_blocks, insert_block, update_expected_block *)

\* the locals of one iteration of the receive loop, before the next message
Locals ==
    /\ msg' = 0
    /\ blk' = 0
    /\ ret' = "subscribe"
    /\ bf_next' = 0
    /\ bf_log' = <<>>

\* main_loop: "except Exception" around subscribe_to_blocks; retry_count is reset
\* only in the else branch of the try, i.e. when subscribe_to_blocks returns
MainLoopExcept ==
    /\ retry_count' = retry_count + 1
    /\ IF retry_count + 1 >= max_retries
       THEN IF BATCH_INTERVAL_SECONDS > 0
            THEN /\ mpc' = "exit_flush"
                 /\ fb' = [fb EXCEPT !["main"] = [Idle EXCEPT !.pc = "acquire"]]
            ELSE /\ mpc' = "return"
                 /\ UNCHANGED fb
       ELSE /\ mpc' = "recv"
            /\ UNCHANGED fb

\* message = await ws.recv(): a newHeads notification for block k;
\* block_data = fetch_full_block(block_number) gives the block
Recv(k) ==
    /\ MainRuns
    /\ mpc = "recv"
    /\ received < MaxMessages
    /\ received' = received + 1
    /\ resolved_keys' = resolved_keys \cup {k}
    /\ msg' = k
    /\ blk' = k
    /\ ret' = "subscribe"
    /\ mpc' = "insert"
    /\ UNCHANGED <<bufVars, cursorVars, bf_next, retry_count, attempt_number, bf_log,
                   flushVars, exitVars, outstanding, failed_writes, faults, sink,
                   otherVars>>

\* a notification for block k, and fetch_full_block returns None: the block is
\* skipped (raises = FALSE); or fetch_full_block raises after its retries:
\* track_missed_block(block_num); continue
RecvFetchFails(k, raises) ==
    /\ MainRuns
    /\ mpc = "recv"
    /\ received < MaxMessages
    /\ received' = received + 1
    /\ faults < MaxFaults
    /\ faults' = faults + 1
    /\ missed_blocks' = IF raises THEN track_missed_block(missed_blocks, k)
                        ELSE missed_blocks
    /\ UNCHANGED <<bufVars, expected_next_block, mainVarsButReceived, flushVars, exitVars,
                   histVars, sink, otherVars>>

\* mutant: the cursor is reset when the connection is lost
Disconnect_reseeding ==
    /\ MainRuns
    /\ mpc = "recv"
    /\ MainLoopExcept
    /\ expected_next_block' = NoBlock
    /\ UNCHANGED <<bufVars, missed_blocks, msg, blk, ret, bf_next, received, attempt_number,
                   bf_log, fpc, consecutive_failures, exitVars, histVars, faults, sink,
                   otherVars>>

\* the connection drops or recv raises: the exception reaches main_loop
Disconnect ==
    /\ MainRuns
    /\ mpc = "recv"
    /\ MainLoopExcept
    /\ UNCHANGED <<bufVars, cursorVars, msg, blk, ret, bf_next, received, attempt_number,
                   bf_log, fpc, consecutive_failures, exitVars, histVars, faults, sink,
                   otherVars>>

\* the server closes the connection normally (close code 1000 or 1001): "async for
\* message in ws" ends without an exception, subscribe_to_blocks returns, and the
\* else branch of main_loop resets retry_count before the next connection
CleanClose ==
    /\ MainRuns
    /\ mpc = "recv"
    /\ retry_count' = 0
    /\ UNCHANGED <<bufVars, cursorVars, mpc, msg, blk, ret, bf_next, received,
                   attempt_number, bf_log, flushVars, exitVars, histVars, faults, sink,
                   otherVars>>

\* mutant: the backfill loop steps over the key after the one it inserted
AfterInsert_skipping ==
    IF ret = "subscribe"
    THEN mpc' = "update" /\ UNCHANGED <<bf_next, bf_log>>
    ELSE /\ mpc' = "bf_fetch"
         /\ bf_next' = bf_next + 2
         /\ bf_log' = Append(bf_log, [block_num |-> blk, outcome |-> "inserted"])

\* where insert_block returns to
AfterInsert ==
    IF ret = "subscribe"
    THEN mpc' = "update" /\ UNCHANGED <<bf_next, bf_log>>
    ELSE /\ mpc' = "bf_fetch"
         /\ bf_next' = bf_next + 1
         /\ bf_log' = Append(bf_log, [block_num |-> blk, outcome |-> "inserted"])

\* insert_block, BATCH_INTERVAL_SECONDS = 0: flush_to_clickhouse([block]) returns
InsertImmediateOk ==
    /\ MainRuns
    /\ mpc = "insert"
    /\ BATCH_INTERVAL_SECONDS = 0
    /\ sink' = sink \cup {blk}
    /\ failed_writes' = failed_writes \ {blk}
    /\ AfterInsert
    /\ UNCHANGED <<bufVars, cursorVars, msg, blk, ret, retry_count, received,
                   attempt_number, flushVars, exitVars, outstanding, resolved_keys, faults,
                   otherVars>>

\* insert_block, BATCH_INTERVAL_SECONDS = 0: flush_to_clickhouse([block]) raises.
\* In subscribe_to_blocks nothing catches it before main_loop; backfill_inline
\* catches it and calls track_missed_block.
InsertImmediateFails ==
    /\ MainRuns
    /\ mpc = "insert"
    /\ BATCH_INTERVAL_SECONDS = 0
    /\ faults < MaxFaults
    /\ faults' = faults + 1
    /\ failed_writes' = failed_writes \cup ({blk} \ sink)
    /\ IF ret = "subscribe"
       THEN /\ MainLoopExcept
            /\ Locals
            /\ UNCHANGED missed_blocks
       ELSE /\ missed_blocks' = track_missed_block(missed_blocks, blk)
            /\ bf_next' = bf_next + 1
            /\ bf_log' = Append(bf_log, [block_num |-> blk, outcome |-> "insert_raised"])
            /\ mpc' = "bf_fetch"
            /\ UNCHANGED <<retry_count, fb, msg, blk, ret>>
    /\ UNCHANGED <<bufVars, expected_next_block, received, attempt_number, fpc,
                   consecutive_failures, exitVars, outstanding, resolved_keys, sink,
                   otherVars>>

\* insert_block, batch mode: "with buffer_lock:" is entered
InsertAcquire ==
    /\ MainRuns
    /\ mpc = "insert"
    /\ BATCH_INTERVAL_SECONDS > 0
    /\ CanAcquire
    /\ buffer_lock' = "main"
    /\ mpc' = "append"
    /\ UNCHANGED <<block_buffer, cursorVars, msg, blk, ret, bf_next, retry_count, received,
                   attempt_number, bf_log, flushVars, exitVars, histVars, faults, sink,
                   otherVars>>

\* insert_block, batch mode: block_buffer.append(block), end of the with block
InsertAppend ==
    /\ MainRuns
    /\ mpc = "append"
    /\ block_buffer' = Append(block_buffer, blk)
    /\ buffer_lock' = "free"
    /\ outstanding' = [outstanding EXCEPT ![blk] = @ + 1]
    /\ fb' = [c \in Callers |-> IF fb[c].pc = "write"
                                THEN [fb[c] EXCEPT !.overlapped = TRUE] ELSE fb[c]]
    /\ AfterInsert
    /\ UNCHANGED <<cursorVars, msg, blk, ret, retry_count, received, attempt_number, fpc,
                   consecutive_failures, exitVars,
                   resolved_keys, failed_writes, faults, sink, otherVars>>

\* mutant: any key other than the expected one counts as a gap
GapDetected_either_side(expected, received_block) ==
    expected # NoBlock /\ received_block # expected

\* if expected_next_block is not None and received_block > expected_next_block
GapDetected(expected, received_block) ==
    expected # NoBlock /\ received_block > expected

\* update_expected_block(block_number)
UpdateExpected ==
    /\ MainRuns
    /\ mpc = "update"
    /\ IF GapDetected(expected_next_block, msg)
       THEN IF msg - expected_next_block <= INLINE_BACKFILL_THRESHOLD
            THEN /\ bf_next' = expected_next_block
                 /\ mpc' = "bf_fetch"
                 /\ UNCHANGED cursorVars
            ELSE /\ missed_blocks' = TrackRange(missed_blocks, expected_next_block, msg)
                 /\ expected_next_block' = msg + 1
                 /\ mpc' = "status"
                 /\ UNCHANGED bf_next
       ELSE /\ expected_next_block' = msg + 1
            /\ mpc' = "status"
            /\ UNCHANGED <<missed_blocks, bf_next>>
    /\ UNCHANGED <<bufVars, msg, blk, ret, retry_count, received, attempt_number, bf_log,
                   flushVars, exitVars, histVars, faults, sink, otherVars>>

\* backfill_inline: fetch_full_block(block_num) gives a block
BackfillFetchOk ==
    /\ MainRuns
    /\ mpc = "bf_fetch"
    /\ bf_next < msg
    /\ resolved_keys' = resolved_keys \cup {bf_next}
    /\ blk' = bf_next
    /\ ret' = "backfill"
    /\ mpc' = "insert"
    /\ UNCHANGED <<bufVars, cursorVars, msg, bf_next, retry_count, received,
                   attempt_number, bf_log, flushVars, exitVars, outstanding, failed_writes,
                   faults, sink, otherVars>>

\* mutant: a failing key ends the loop of backfill_inline
BackfillFetchFails_aborting(raises) ==
    /\ MainRuns
    /\ mpc = "bf_fetch"
    /\ bf_next < msg
    /\ faults < MaxFaults
    /\ faults' = faults + 1
    /\ missed_blocks' = IF raises THEN track_missed_block(missed_blocks, bf_next)
                        ELSE missed_blocks
    /\ bf_next' = msg
    /\ bf_log' = Append(bf_log, [block_num |-> bf_next,
                                 outcome |-> IF raises THEN "fetch_raised" ELSE "null"])
    /\ UNCHANGED <<bufVars, expected_next_block, mpc, msg, blk, ret, retry_count, received,
                   attempt_number, flushVars, exitVars, histVars, sink, otherVars>>

\* backfill_inline: fetch_full_block returns None (skipped) or raises (tracked)
BackfillFetchFails(raises) ==
    /\ MainRuns
    /\ mpc = "bf_fetch"
    /\ bf_next < msg
    /\ faults < MaxFaults
    /\ faults' = faults + 1
    /\ missed_blocks' = IF raises THEN track_missed_block(missed_blocks, bf_next)
                        ELSE missed_blocks
    /\ bf_next' = bf_next + 1
    /\ bf_log' = Append(bf_log, [block_num |-> bf_next,
                                 outcome |-> IF raises THEN "fetch_raised" ELSE "null"])
    /\ UNCHANGED <<bufVars, expected_next_block, mpc, msg, blk, ret, retry_count, received,
                   attempt_number, flushVars, exitVars, histVars, sink, otherVars>>

\* backfill_inline is done; update_expected_block: expected_next_block = block_number + 1
BackfillDone ==
    /\ MainRuns
    /\ mpc = "bf_fetch"
    /\ bf_next >= msg
    /\ expected_next_block' = msg + 1
    /\ mpc' = "status"
    /\ UNCHANGED <<bufVars, missed_blocks, msg, blk, ret, bf_next, retry_count, received,
                   attempt_number, bf_log, flushVars, exitVars, histVars, faults, sink,
                   otherVars>>

\* the status print: "with buffer_lock: buffer_size = len(block_buffer)" in batch mode
Status ==
    /\ MainRuns
    /\ mpc = "status"
    /\ BATCH_INTERVAL_SECONDS > 0 => CanAcquire
    /\ mpc' = "recv"
    /\ Locals
    /\ UNCHANGED <<bufVars, cursorVars, retry_count, received, attempt_number, flushVars,
                   exitVars, histVars, faults, sink, otherVars>>

\* main_loop returns after max_retries (its exit-path flush_buffer returned or
\* raised); main() returns 0 whatever main_loop returned
MainReturn ==
    /\ MainRuns
    /\ \/ mpc = "return"
       \/ mpc = "exit_flush" /\ fb["main"].pc \in {"returned", "raised"}
    /\ \E delivered \in SUBSET {"flusher"} : Exit(0, delivered)
    /\ UNCHANGED <<resolved_keys, otherVars>>

-----------------------------------------------------------------------------
(* subscribe_to_blocks, message by message and fetch attempt by fetch attempt *)

\* A WebSocket message, by what the receive loop looks at: data = json.loads(message)
\* ("invalid": not JSON), data['params'], data['params']['result'] (the block header)
\* and the header's 'number'.  A value is "absent", or of JSON kind "null",
\* "number", "string" or "object".  number = NoBlock: the header has no 'number', or
\* null; hex: the number is a hexadecimal string that the node can resolve.
Message(data, params, result, number, hex) ==
    [data |-> data, params |-> params, result |-> result, number |-> number, hex |-> hex]

NewHeads(k) == Message("object", "object", "object", k, TRUE)

Messages ==
    {Message("invalid", "absent", "absent", NoBlock, FALSE)}
    \cup {Message(d, "absent", "absent", NoBlock, FALSE) : d \in {"null", "number", "string"}}
    \cup {Message("object", p, "absent", NoBlock, FALSE) :
              p \in {"absent", "null", "number", "string"}}
    \cup {Message("object", "object", r, NoBlock, FALSE) :
              r \in {"absent", "null", "number", "string"}}
    \cup {Message("object", "object", "object", NoBlock, FALSE),
          Message("object", "object", "object", 0, FALSE)}
    \cup {NewHeads(k) : k \in IngestBlocks}

\* Python's "key in container": an object has the key or not, a string does not
\* contain the key's name, null and numbers raise TypeError
In(container, member) ==
    IF container = "object" THEN (IF member = "absent" THEN "false" ELSE "true")
    ELSE IF container = "string" THEN "false"
    ELSE "raise"

\* the receive loop from json.loads(message) to block_header.get('number'):
\* "skip" is a continue, "raise" an exception that leaves the loop
Classify(m) ==
    IF m.data = "invalid" THEN "skip"
    ELSE IF In(m.data, m.params) = "raise" THEN "raise"
    ELSE IF In(m.data, m.params) = "false" THEN "skip"
    ELSE IF In(m.params, m.result) = "raise" THEN "raise"
    ELSE IF In(m.params, m.result) = "false" THEN "skip"
    ELSE IF m.result = "null" THEN "skip"
    ELSE IF m.result # "object" THEN "raise"
    ELSE IF m.number = NoBlock THEN "skip"
    ELSE "fetch"

\* what one HTTP request of fetch_full_block comes to: result['result'] is a block
\* or null, requests raises (timeout, connection, HTTP status), or the node answers
\* with an 'error' member
FetchOutcomes == {"block", "null", "request_exception", "rpc_error"}

\* retry=retry_if_exception_type((RequestException, Timeout))
retry_if_exception_type(outcome) == outcome = "request_exception"

\* mutant: the retry never gives up
stop_after_attempt_never(attempt) == FALSE

\* stop=stop_after_attempt(MAX_RETRY_ATTEMPTS)
stop_after_attempt(attempt) == attempt >= MAX_RETRY_ATTEMPTS

\* message = next of "async for message in ws", up to the call of fetch_full_block
RecvMessage(m) ==
    /\ MainRuns
    /\ mpc = "recv"
    /\ received < MaxMessages
    /\ received' = received + 1
    /\ IF Classify(m) = "fetch"
       THEN /\ msg' = IF m.hex THEN m.number ELSE NoBlock
            /\ mpc' = "fetch"
            /\ UNCHANGED <<blk, ret, bf_next, bf_log, retry_count, fb>>
       ELSE IF Classify(m) = "raise"
       THEN MainLoopExcept /\ Locals
       ELSE UNCHANGED <<mpc, msg, blk, ret, bf_next, bf_log, retry_count, fb>>
    /\ UNCHANGED <<bufVars, cursorVars, attempt_number, fpc, consecutive_failures,
                   exitVars, histVars, faults, sink, otherVars>>

\* one attempt of fetch_full_block(block_number_hex) under the retry decorator
FetchAttempt(outcome) ==
    /\ MainRuns
    /\ mpc = "fetch"
    /\ outcome = "block" => msg # NoBlock
    /\ IF outcome = "block"
       THEN /\ resolved_keys' = resolved_keys \cup {msg}
            /\ blk' = msg
            /\ ret' = "subscribe"
            /\ mpc' = "insert"
            /\ attempt_number' = 0
            /\ UNCHANGED <<msg, bf_next, bf_log>>
       ELSE IF outcome = "null"
       THEN /\ mpc' = "recv"
            /\ attempt_number' = 0
            /\ Locals
            /\ UNCHANGED resolved_keys
       ELSE /\ attempt_number' = attempt_number + 1
            /\ mpc' = IF retry_if_exception_type(outcome)
                         /\ ~stop_after_attempt(attempt_number + 1)
                      THEN "fetch" ELSE "fetch_failed"
            /\ UNCHANGED <<msg, blk, ret, bf_next, bf_log, resolved_keys>>
    /\ UNCHANGED <<bufVars, cursorVars, retry_count, received, flushVars, exitVars,
                   outstanding, failed_writes, faults, sink, otherVars>>

\* except Exception: block_num = int(block_number_hex, 16);
\* track_missed_block(block_num); continue
FetchExcept ==
    /\ MainRuns
    /\ mpc = "fetch_failed"
    /\ attempt_number' = 0
    /\ Locals
    /\ IF msg = NoBlock
       THEN MainLoopExcept /\ UNCHANGED missed_blocks
       ELSE /\ missed_blocks' = track_missed_block(missed_blocks, msg)
            /\ mpc' = "recv"
            /\ UNCHANGED <<retry_count, fb>>
    /\ UNCHANGED <<bufVars, expected_next_block, received, fpc, consecutive_failures,
                   exitVars, histVars, faults, sink, otherVars>>

-----------------------------------------------------------------------------
(* graceful_shutdown *)

\* SIGTERM/SIGINT arrives: the handler starts on the main thread;
\* shutdown_requested = True; flush_buffer() if BATCH_INTERVAL_SECONDS > 0
Signal ==
    /\ ~exited
    /\ hpc = "idle"
    /\ hpc' = "running"
    /\ shutdown_requested' = TRUE
    /\ buffer_at_signal' = Range(block_buffer)
    /\ inflight_at_signal' = IF fb["flusher"].pc \in {"write", "failed"}
                             THEN Range(fb["flusher"].batch) ELSE {}
    /\ fb' = [fb EXCEPT !["handler"] =
                 [Idle EXCEPT !.pc = IF BATCH_INTERVAL_SECONDS > 0 THEN "acquire"
                                     ELSE "returned"]]
    /\ UNCHANGED <<bufVars, cursorVars, mainVars, fpc, consecutive_failures, exited,
                   exit_code, histVars, faults, sink, otherVars>>

\* graceful_shutdown: the flush returned, or raised and was logged; sys.exit(0)
HandlerExit ==
    /\ ~exited
    /\ hpc = "running"
    /\ fb["handler"].pc \in {"returned", "raised"}
    /\ \E delivered \in SUBSET {"main", "flusher"} : Exit(0, delivered)
    /\ UNCHANGED <<resolved_keys, otherVars>>


-----------------------------------------------------------------------------
(* Initial states and specifications *)

MonitorStart ==
    /\ gap_tracking = <<>>
    /\ now = 0
    /\ cycles = 0
    /\ new_gaps = <<>>
    /\ persistent_gaps = <<>>
    /\ resolved_gaps = <<>>
    /\ sent = <<>>
    /\ pings = <<>>
    /\ gaps = <<>>
    /\ tracked_gap_keys = {}
    /\ status = 0
    /\ error = ""
    /\ inv = [p \in Triggers |-> NotInvoked]
    /\ observed = <<>>
    /\ gone = <<>>

\* the collector's module-level state, and main() before the first notification;
\* blocks: the block numbers the notifications may carry
CollectorStartWith(interval, blocks, buffer) ==
    /\ BATCH_INTERVAL_SECONDS = interval
    /\ block_buffer = buffer
    /\ buffer_lock = "free"
    /\ shutdown_requested = FALSE
    /\ expected_next_block = IF buffer = <<>> THEN NoBlock ELSE buffer[Len(buffer)] + 1
    /\ missed_blocks = <<>>
    /\ mpc = "recv"
    /\ msg = 0
    /\ blk = 0
    /\ ret = "subscribe"
    /\ bf_next = 0
    /\ retry_count = 0
    /\ attempt_number = 0
    /\ bf_log = <<>>
    /\ fb = [c \in Callers |->
                IF c = "flusher" /\ interval > 0 THEN [Idle EXCEPT !.pc = "acquire"]
                ELSE Idle]
    /\ fpc = IF interval > 0 THEN "running" ELSE "none"
    /\ consecutive_failures = 0
    /\ hpc = "idle"
    /\ exited = FALSE
    /\ exit_code = 0
    /\ received = Len(buffer)
    /\ faults = 0
    /\ outstanding = [k \in blocks |-> Count(buffer, k)]
    /\ resolved_keys = Range(buffer)
    /\ failed_writes = {}
    /\ buffer_at_signal = {}
    /\ inflight_at_signal = {}
    /\ mp_attempt = 1
    /\ mp_result = "running"
    /\ mp_responses = <<>>

CollectorStartOver(interval, blocks) == CollectorStartWith(interval, blocks, <<>>)

CollectorStart(interval) == CollectorStartOver(interval, Blocks)

MonitorInit ==
    /\ sink = {}
    /\ latest_timestamp = 0
    /\ MonitorStart
    /\ CollectorStart(300)

MonitorNext ==
    \/ monitor
    \/ \E k \in Keys : SinkInsert(k)

vars == <<sinkVars, monitorVars, collectorVars>>

MonitorSpec == MonitorInit /\ [][MonitorNext]_vars

\* the i-th key of a table with gaps of sizes 1, 2, 3, ... starting at block 1
RECURSIVE StairKey(_)
StairKey(i) == IF i = 0 THEN 1 ELSE StairKey(i - 1) + i + 1

\* a table with n gaps, all of different sizes
Staircase(n) == {StairKey(i) : i \in 0 .. n}

\* sink contents the scan is applied to: every set of block numbers up to
\* MaxScanKey, and one table with more gaps than GAP_DETECTION_LIMIT
MaxScanKey == 6
ScanInputs == (SUBSET (0 .. MaxScanKey)) \cup {Staircase(GAP_DETECTION_LIMIT + 1)}

ScanInit ==
    /\ sink \in ScanInputs
    /\ latest_timestamp = 0
    /\ MonitorStart
    /\ CollectorStart(300)

\* one call of detect_gaps_clickhouse on the sink as it is; the sink is not written
\* between the calls
Scan(null_for_empty) ==
    LET r == detect_gaps_clickhouse(sink, null_for_empty)
    IN  /\ cycles < MaxCycles
        /\ cycles' = cycles + 1
        /\ IF r.raises
           THEN gaps' = <<>> /\ error' = "no_blocks"
           ELSE gaps' \in r.results /\ error' = ""
        /\ UNCHANGED <<gap_tracking, now, tracked_gap_keys, new_gaps, persistent_gaps,
                       resolved_gaps, sent, pings, status, inv, observed, gone,
                       sinkVars, collectorVars>>

\* the monitor invoked by its two triggers, with sink writes in between
OverlapNext ==
    \/ \E p \in Triggers, d \in Steps :
         \E tracked_gaps \in GetTrackedGaps(gap_tracking),
            current_gaps \in DetectGaps(sink) :
                InvocationReads(p, d, tracked_gaps, current_gaps)
    \/ \E p \in Triggers : InvocationWrites(p)
    \/ \E k \in Keys : SinkInsert(k)

OverlapSpec == MonitorInit /\ [][OverlapNext]_vars

ScanNext == \E null_for_empty \in BOOLEAN : Scan(null_for_empty)

ScanSpec == ScanInit /\ [][ScanNext]_vars

\* the end-to-end scenario: blocks 1 to 1000 ingested except 501 to 510, a monitor
\* invoked periodically, and an external backfill job that inserts the missing blocks
\* as one batch
Outage == 501 .. 510
Complete == 1 .. 1000
Ingested == Complete \ Outage

EndToEndInit ==
    /\ sink = Ingested
    /\ latest_timestamp = 0
    /\ MonitorStart
    /\ CollectorStart(300)

ExternalBackfill ==
    /\ sink = Ingested
    /\ sink' = sink \cup Outage
    /\ UNCHANGED <<latest_timestamp, monitorVars, collectorVars>>

EndToEndNext ==
    \/ \E d \in Steps : MonitorScanFailed(d)
    \/ \E d \in Steps :
         \E tracked_gaps \in GetTrackedGaps(gap_tracking),
            current_gaps \in DetectGaps(sink) :
                MonitorCycle(d, tracked_gaps, current_gaps)
    \/ ExternalBackfill

EndToEndSpec == EndToEndInit /\ [][EndToEndNext]_vars

CollectorInit ==
    /\ sink = {}
    /\ latest_timestamp = 0
    /\ MonitorStart
    /\ \E interval \in BatchIntervals : CollectorStart(interval)

flush_buffer ==
    \E c \in Callers :
        \/ FlushAcquire(c)
        \/ FlushClear(c)
        \/ FlushWriteOk(c)
        \/ FlushWriteFails(c)
        \/ FlushRebuffer(c)

insert_block ==
    \/ InsertImmediateOk
    \/ InsertImmediateFails
    \/ InsertAcquire
    \/ InsertAppend

backfill_inline ==
    \/ BackfillFetchOk
    \/ \E raises \in BOOLEAN : BackfillFetchFails(raises)
    \/ BackfillDone

subscribe_to_blocks ==
    \/ \E k \in Blocks : Recv(k)
    \/ \E k \in Blocks, raises \in BOOLEAN : RecvFetchFails(k, raises)
    \/ Disconnect
    \/ CleanClose
    \/ insert_block
    \/ UpdateExpected
    \/ backfill_inline
    \/ Status

graceful_shutdown == Signal \/ HandlerExit

-----------------------------------------------------------------------------
(* MempoolCollector.collect_snapshot *)

\* what a GET of one endpoint comes to: a 200 response, a 429 response, another
\* error status (raise_for_status raises HTTPStatusError), or a network error
\* (httpx.RequestError)
Responses == {"ok", "too_many_requests", "http_error", "request_error"}

\* isinstance(exc, cls) for the exception classes of exceptions.py:
\* MempoolRateLimitException is a subclass of MempoolHTTPException
IsInstance(exc, cls) ==
    \/ exc = cls
    \/ exc = "MempoolRateLimitException" /\ cls = "MempoolHTTPException"

\* the exception one GET ends in, "" for none
RaisedBy(response) ==
    CASE response = "ok" -> ""
      [] response = "too_many_requests" -> "MempoolRateLimitException"
      [] response = "http_error" -> "MempoolHTTPException"
      [] response = "request_error" -> "MempoolHTTPException"

\* Retrying(retry=retry_if_exception_type(MempoolHTTPException),
\*          stop=stop_after_attempt(3), reraise=True)
MempoolRetry(exc) == IsInstance(exc, "MempoolHTTPException")
MempoolStop(attempt) == attempt >= 3

\* one attempt of the retry loop: GET /mempool, then GET /v1/fees/recommended unless
\* the first raised; fees = "none" when the second GET was not made
MempoolAttempt(mempool, fees) ==
    LET exc == IF RaisedBy(mempool) # "" THEN RaisedBy(mempool) ELSE RaisedBy(fees)
    IN  /\ mp_result = "running"
        /\ (fees = "none") <=> (RaisedBy(mempool) # "")
        /\ mp_responses' = Append(mp_responses, [mempool |-> mempool, fees |-> fees])
        /\ IF exc = ""
           THEN mp_result' = "snapshot" /\ UNCHANGED mp_attempt
           ELSE IF MempoolRetry(exc) /\ ~MempoolStop(mp_attempt)
           THEN mp_attempt' = mp_attempt + 1 /\ UNCHANGED mp_result
           ELSE mp_result' = exc /\ UNCHANGED mp_attempt
        /\ UNCHANGED <<sinkVars, monitorVars, BATCH_INTERVAL_SECONDS, bufVars, cursorVars,
                       mainVars, flushVars, exitVars, histVars, faults>>

collect_snapshot ==
    \E mempool \in Responses, fees \in Responses \cup {"none"} :
        MempoolAttempt(mempool, fees)

\* the batch flusher and the shutdown handler over a buffer the ingestion path has
\* filled, with the sink failing up to MaxFlushFailures times
FlusherBuffers == {b \in UNION {[1 .. n -> Blocks] : n \in 1 .. MaxMessages} :
                        \A i \in 1 .. (Len(b) - 1) : b[i] < b[i + 1]}

FlusherInit ==
    /\ sink = {}
    /\ latest_timestamp = 0
    /\ MonitorStart
    /\ \E buffer \in FlusherBuffers :
            CollectorStartWith(300, Blocks, buffer)

FlusherNext ==
    \/ \E c \in {"flusher", "handler"} :
            \/ FlushAcquire(c)
            \/ FlushClear(c)
            \/ FlushWriteOk(c)
            \/ FlushWriteFailsUpTo(c, MaxFlushFailures)
            \/ FlushRebuffer(c)
    \/ graceful_shutdown

FlusherSpec == FlusherInit /\ [][FlusherNext]_vars

MempoolInit ==
    /\ sink = {}
    /\ latest_timestamp = 0
    /\ MonitorStart
    /\ CollectorStart(300)

MempoolSpec == MempoolInit /\ [][collect_snapshot]_vars

CollectorNext ==
    \/ subscribe_to_blocks
    \/ MainReturn
    \/ flush_buffer
    \/ graceful_shutdown

CollectorSpec == CollectorInit /\ [][CollectorNext]_vars

\* the main thread alone, over more block numbers and every kind of message
IngestNext ==
    \/ \E m \in Messages : RecvMessage(m)
    \/ \E outcome \in FetchOutcomes : FetchAttempt(outcome)
    \/ FetchExcept
    \/ insert_block
    \/ UpdateExpected
    \/ backfill_inline
    \/ Status

IngestInit ==
    /\ sink = {}
    /\ latest_timestamp = 0
    /\ MonitorStart
    /\ \E interval \in BatchIntervals : CollectorStartOver(interval, IngestBlocks)

IngestSpec == IngestInit /\ [][IngestNext]_vars

\* the main thread is never suspended for good: a step it can take is taken
IngestFairSpec == IngestSpec /\ WF_vars(IngestNext)

\* the main thread alone with connections that are lost or closed between two
\* messages, until main_loop gives up
ReconnectNext ==
    \/ IngestNext
    \/ Disconnect
    \/ CleanClose

ReconnectSpec == IngestInit /\ [][ReconnectNext]_vars

-----------------------------------------------------------------------------
(* Properties of the gap monitor, checked under MonitorSpec *)

GapKeys(list) == {<<list[i].gap_start, list[i].gap_end>> : i \in 1 .. Len(list)}

\* the last cycle ran the scan and process_gap_tracking
Scanned == cycles > 0 /\ error \notin {"query", "no_blocks"}

\* C1: a range first observed by a scan at T0 and present in every scan since has
\* produced no 'persistent' notification while the latest scan is before T0 + G, and
\* exactly one (from the first scan at or after T0 + G, none from later scans) once
\* a scan at or after T0 + G has run.
C1_PersistentExactlyOnce ==
    \A k \in DOMAIN observed :
        observed[k].alerts =
            IF observed[k].last - observed[k].first >= GAP_GRACE_PERIOD_SECONDS
            THEN 1 ELSE 0

\* C1, its last clause alone: a range that has stayed open since it was first observed
\* never produces a second 'persistent' notification.
C1_NoRepeatedPersistent ==
    \A k \in DOMAIN observed : observed[k].alerts <= 1

\* C2: after a scan + track cycle the resolved list is exactly tracked_keys minus
\* scan_keys; a range of the current scan result is not classified resolved, gets no
\* 'resolved' alert and is still tracked at the end of the cycle.
C2_ResolvedIsSetDifference ==
    Scanned =>
        /\ GapKeys(resolved_gaps) = tracked_gap_keys \ ScanKeys(gaps)
        /\ ScanKeys(gaps) \subseteq DOMAIN gap_tracking
        /\ \A i \in 1 .. Len(sent) :
                sent[i].title = "GAP RESOLVED" => sent[i].gap \notin ScanKeys(gaps)

C4_NotifiedStaysNotified ==
    [][(cycles' = cycles + 1 /\ error' # "query") =>
        \A k \in DOMAIN gap_tracking :
            (gap_tracking[k].notified /\ k \in ScanKeys(gaps')) =>
                /\ k \in DOMAIN gap_tracking'
                /\ gap_tracking'[k] = [gap_tracking[k] EXCEPT !.last_seen = now']]_vars

-----------------------------------------------------------------------------
(* Properties of the real-time collector *)

InFlight(c) == fb[c].pc \in {"write", "failed"}

\* the records the ingestor holds for a write: the buffer and the drained batches
Held == Range(block_buffer) \cup UNION {Range(fb[c].batch) : c \in Callers}

\* C5: when the shutdown handler has completed and the process has exited, every
\* record that was in the buffer when the termination signal arrived is in the sink.
C5_ShutdownDurability ==
    (exited /\ hpc = "done") => buffer_at_signal \subseteq sink

\* C6: when the termination signal arrives while the flusher thread has drained a
\* batch that is not written yet, the process does not exit before the records of
\* that batch are in the sink.
C6_NoInFlightWriteAbandoned ==
    (exited /\ hpc = "done") => inflight_at_signal \subseteq sink

\* C7: after a failed sink write (a batch flush, or an immediate single-record write
\* with flush period 0) every record of the failed write is still held by the running
\* ingestor for a retry, until a write of it succeeds.
C7_FailedWriteKeepsData ==
    ~exited => failed_writes \subseteq Held

\* the buffer, followed by the batches that drains have taken out of it
Taken ==
    block_buffer \o (IF InFlight("main") THEN fb["main"].batch ELSE <<>>)
                 \o (IF InFlight("flusher") THEN fb["flusher"].batch ELSE <<>>)
                 \o (IF InFlight("handler") THEN fb["handler"].batch ELSE <<>>)

\* C8: append and drain exclude each other and a drain takes and resets atomically:
\* every appended record that is not written yet is in the buffer or in exactly one
\* drained batch, a drain between its copy and its reset has copied the whole
\* buffer, and at most one thread is inside the lock.
C8_AppendDrainExclusive ==
    /\ \A k \in Blocks : outstanding[k] = Count(Taken, k)
    /\ \A c \in Callers : fb[c].pc = "clear" => fb[c].batch = block_buffer
    /\ Cardinality({c \in Callers : fb[c].pc = "clear"})
          + (IF mpc = "append" THEN 1 ELSE 0) <= 1

\* a drain has taken a batch whose write is in progress, and a record appended since
\* is in the buffer, while another append waits for the lock a second drain holds
C8_Witness ==
    /\ fb["flusher"].pc = "write"
    /\ fb["flusher"].overlapped
    /\ block_buffer # <<>>
    /\ fb["handler"].pc = "clear"
    /\ ~exited

\* C9: a failed batch is re-inserted oldest-first: when a record was appended while
\* the write was in progress, the re-insert puts the failed batch, in its original
\* order, ahead of what the buffer holds.
C9_ReinsertOldestFirst ==
    [][\A c \in Callers :
          (fb[c].pc = "failed" /\ fb'[c].pc # "failed" /\ ~exited' /\ fb[c].overlapped)
              => block_buffer' = fb[c].batch \o block_buffer]_vars

\* nothing is buffered, drained or being inserted
Flushed ==
    /\ block_buffer = <<>>
    /\ \A c \in Callers : fb[c].batch = <<>>
    /\ mpc \in {"recv", "return", "exit_flush", "done"}

\* C10: once the buffered records have been flushed, the key set of the sink is the
\* union of the successfully resolved keys (the sink keeps one row per key).
C10_SinkIsResolvedKeys ==
    Flushed => sink = resolved_keys

-----------------------------------------------------------------------------
(* StreamIngestor: the cursor, inline backfill and MissedSequenceSet *)

\* the keys the sink or the buffer holds
Inserted == sink \cup Range(block_buffer)

\* update_expected_block(msg) finds a gap no larger than the inline threshold
SmallGap ==
    /\ mpc = "update"
    /\ expected_next_block # NoBlock
    /\ msg > expected_next_block
    /\ msg - expected_next_block <= INLINE_BACKFILL_THRESHOLD

\* backfill_inline returns to update_expected_block
BackfillEnds == mpc = "bf_fetch" /\ mpc' = "status"

LargeGap ==
    /\ mpc = "update"
    /\ expected_next_block # NoBlock
    /\ msg - expected_next_block > INLINE_BACKFILL_THRESHOLD

\* C12: a gap [c, k-1] larger than the inline threshold is not backfilled inline:
\* no key is fetched, every key of [c, k-1] is in missed_blocks once the
\* notification has been processed, and the cursor is k + 1.
C12_LargeGapTracked ==
    [][LargeGap =>
          /\ mpc' = "status"
          /\ resolved_keys' = resolved_keys
          /\ bf_log' = <<>>
          /\ \A j \in expected_next_block .. (msg - 1) : j \in Range(missed_blocks')
          /\ expected_next_block' = msg + 1]_vars

\* a notification has left a gap of more than the threshold, all of it tracked
C12_Witness ==
    /\ mpc = "status"
    /\ bf_log = <<>>
    /\ Len(missed_blocks) > INLINE_BACKFILL_THRESHOLD
    /\ expected_next_block = msg + 1

\* update_expected_block(msg) for a key below the cursor
BelowCursor ==
    /\ mpc = "update"
    /\ expected_next_block # NoBlock
    /\ msg < expected_next_block

\* C13: a resolved key k below the cursor is accepted silently: its record has been
\* appended (it is in the sink or the buffer), no gap is detected, no inline backfill
\* happens and missed_blocks is unchanged.
C13_BelowCursorAccepted ==
    [][BelowCursor =>
          /\ msg \in Inserted
          /\ msg \in resolved_keys
          /\ mpc' = "status"
          /\ bf_log' = <<>>
          /\ resolved_keys' = resolved_keys
          /\ missed_blocks' = missed_blocks]_vars

\* the second notification, for a key below the one of the first, has been
\* processed: both records are held, nothing was backfilled or tracked
C13_Witness ==
    /\ mpc = "status"
    /\ received = 2
    /\ msg \in Inserted
    /\ \E j \in Inserted : j > msg
    /\ bf_log = <<>>
    /\ missed_blocks = <<>>

\* the except clause of the fetch of a notified, well-formed key is about to run
FetchFailed == mpc = "fetch_failed" /\ msg # NoBlock

\* C14: a fetch makes at most MAX_RETRY_ATTEMPTS attempts; when the last one fails the
\* key is added to missed_blocks, the cursor and the buffer are unchanged and the
\* next notification is taken on the same connection: the failure neither ends the
\* stream nor counts as a reconnect.
C14_FetchFailureTracked ==
    [][/\ attempt_number' <= MAX_RETRY_ATTEMPTS
       /\ FetchFailed =>
            /\ msg \in Range(missed_blocks')
            /\ expected_next_block' = expected_next_block
            /\ block_buffer' = block_buffer
            /\ sink' = sink
            /\ mpc' = "recv"
            /\ retry_count' = retry_count
            /\ ~exited']_vars

\* the third attempt of a fetch has failed, and no fourth is made
C14_Witness ==
    /\ mpc = "fetch_failed"
    /\ msg # NoBlock
    /\ attempt_number = MAX_RETRY_ATTEMPTS
    /\ expected_next_block # NoBlock

\* what a skipped notification leaves as it was
Skipped ==
    /\ expected_next_block' = expected_next_block
    /\ block_buffer' = block_buffer
    /\ sink' = sink
    /\ missed_blocks' = missed_blocks
    /\ retry_count' = retry_count
    /\ mpc' \in {"recv", "fetch", "fetch_failed"}
    /\ ~exited'

\* C15: a malformed notification (invalid JSON, a missing or null field, a payload of
\* the wrong type, a key that cannot be parsed) is skipped and never fatal: while it
\* is handled the cursor, the buffer and missed_blocks are unchanged, the connection
\* stays open and the reconnect counter is unchanged.  (A message is well-formed
\* when the receive loop gets a block number out of it: mpc' = "fetch" with
\* msg' # NoBlock; in the fetch of a malformed key, msg = NoBlock.)
C15_MalformedSkipped ==
    [][/\ (/\ mpc = "recv"
           /\ received' = received + 1
           /\ ~(mpc' = "fetch" /\ msg' # NoBlock)) => Skipped
       /\ (mpc \in {"fetch", "fetch_failed"} /\ msg = NoBlock) => Skipped]_vars

-----------------------------------------------------------------------------
(* main_loop: reconnects and exit *)

\* the process exits by main() returning, not by the signal handler
MainExits == ~exited /\ exited' /\ hpc = "idle"

\* C16: disconnects lead to a bounded number of reconnect attempts; once they are
\* exhausted the collector flushes the buffer and the process exits with a non-zero
\* status.
C16_ExhaustedExitsNonZero ==
    [][/\ retry_count' <= max_retries
       /\ MainExits =>
            /\ retry_count >= max_retries
            /\ BATCH_INTERVAL_SECONDS > 0 => fb["main"].pc \in {"returned", "raised"}
            /\ exit_code' # 0]_vars

-----------------------------------------------------------------------------
(* MissedSequenceSet over the life of the process *)

\* block k is being fetched again, or its record is being inserted
Retried(k) ==
    \/ mpc \in {"fetch", "fetch_failed"} /\ msg = k
    \/ mpc = "bf_fetch" /\ bf_next = k /\ bf_next < msg
    \/ mpc \in {"insert", "append"} /\ blk = k

\* C17: every key placed in missed_blocks is later retried, and a key whose retry
\* succeeds is removed: a key in missed_blocks is eventually fetched again or
\* out of the list.
C17_MissedRetried ==
    \A k \in IngestBlocks :
        (k \in Range(missed_blocks)) ~> (Retried(k) \/ k \notin Range(missed_blocks))

-----------------------------------------------------------------------------
(* GapScanner: what one scan returns *)

\* a scan has returned the list in gaps for the sink as it is
ScanReturned == cycles > 0 /\ error = ""

\* the maximal runs of missing keys between present keys: for consecutive present
\* keys prev < cur with cur - prev > 1, the range <<prev + 1, cur - 1>>
MaximalRuns(s) ==
    {<<prev + 1, Min({m \in s : m > prev}) - 1>> :
        prev \in {n \in s : n # Max(s) /\ (n + 1) \notin s}}

\* the gap_size a gap dict states, and their sum over a list
StatedSize(g) == g.description[1].groups[1]

RECURSIVE SumSizes(_)
SumSizes(list) ==
    IF list = <<>> THEN 0 ELSE StatedSize(Head(list)) + SumSizes(Tail(list))

\* C18: one scan returns exactly the maximal runs of missing keys between present
\* keys: each such range [prev+1, cur-1] once, with size cur - prev - 1, none
\* omitted however many there are, no other range, and the sizes sum to
\* (max - min + 1) - count.
C18_ExactlyTheMaximalRuns ==
    (ScanReturned /\ sink # {}) =>
        /\ ScanKeys(gaps) = MaximalRuns(sink)
        /\ Len(gaps) = Cardinality(MaximalRuns(sink))
        /\ \A i \in 1 .. Len(gaps) :
              StatedSize(gaps[i]) = ParseEndBlock(gaps[i].description) - gaps[i].block_number + 1
        /\ SumSizes(gaps) = (Max(sink) - Min(sink) + 1) - Cardinality(sink)

\* C19: only internal gaps are reported: no reported range contains a key below the
\* smallest present key or above the largest present key.
C19_OnlyInternalGaps ==
    (ScanReturned /\ sink # {}) =>
        \A k \in ScanKeys(gaps) : Min(sink) < k[1] /\ k[2] < Max(sink)

\* C20: a scan over an empty sink yields zero gap ranges and never an error: no
\* exception is raised and the cycle does not end in the fatal verdict because the
\* sink is empty.  (The sink only grows, so it was empty in the last cycle too.)
C20_EmptySinkNoError ==
    (cycles > 0 /\ sink = {}) => (gaps = <<>> /\ error # "no_blocks")

-----------------------------------------------------------------------------
(* GapScanner idempotence *)

\* a step from one scan that returned a list to the next one that returned a list,
\* with no sink write between the two
Rescanned ==
    /\ ScanReturned
    /\ cycles' = cycles + 1
    /\ error' = ""
    /\ sink' = sink

\* C21: two scans with no sink write between them return identical GapRange lists:
\* the same ranges in the same order, for every sink content, also one with several
\* gaps of equal size.
C21_ScanIdempotent == [][Rescanned => gaps' = gaps]_vars

-----------------------------------------------------------------------------
(* End to end: an outage, an external backfill, a rescan *)

\* a monitor() invocation that ran to its verdict
CycleCompletes == cycles' = cycles + 1 /\ error' = ""

\* the list holds the one range 501 to 510 with size 10 and nothing else
ReportsTheOutage(list) ==
    /\ Len(list) = 1
    /\ ScanKeys(list) = {<<Min(Outage), Max(Outage)>>}
    /\ StatedSize(list[1]) = Cardinality(Outage)

ResolvedAlerts(alerts) ==
    {i \in 1 .. Len(alerts) : alerts[i].title = "GAP RESOLVED"}

\* C22: with keys 1 to 1000 ingested except 501 to 510, a scan reports exactly the
\* one range {start 501, end 510, size 10}; after an external backfill has inserted
\* 501 to 510, the rescan that follows a scan which reported the range reports zero
\* ranges and fires exactly one 'resolved' event.
C22_EndToEnd ==
    [][CycleCompletes =>
        /\ sink = Ingested => ReportsTheOutage(gaps')
        /\ (sink = Complete /\ Scanned /\ ReportsTheOutage(gaps)) =>
                /\ gaps' = <<>>
                /\ Len(resolved_gaps') = 1
                /\ Cardinality(ResolvedAlerts(sent')) = 1]_vars

-----------------------------------------------------------------------------
(* HealthReporter: the verdict of a cycle *)

\* the ranges of the latest scan that have been open for longer than the grace
\* period, notified or not
PersistentNow ==
    {k \in DOMAIN observed : now - observed[k].first > GAP_GRACE_PERIOD_SECONDS}

\* the newest record is no older than the staleness threshold at the latest cycle
FreshNow == sink # {} /\ now - latest_timestamp <= STALENESS_THRESHOLD_SECONDS

\* C23: each scan+health cycle returns exactly one of three verdicts: scan-failed
\* (HTTP 503) when a scan query fails; otherwise healthy (HTTP 200) iff the newest
\* record's age is within the staleness threshold and the current count of
\* Persistent ranges (open past the grace period, whether or not already notified
\* in an earlier cycle) is zero; otherwise degraded (HTTP 500).
C23_ThreeVerdicts ==
    [][cycles' = cycles + 1 =>
        /\ error' \in {"query", "no_blocks"} => status' = 503
        /\ error' = "" =>
            /\ status' \in {200, 500}
            /\ status' = 200 <=> (FreshNow' /\ PersistentNow' = {})]_vars

-----------------------------------------------------------------------------
(* HealthReporter: the alert messages of a cycle *)

StaleAlerted(alerts) == Alert("DATA STALE", <<>>) \in Range(alerts)

\* a degraded-for-staleness cycle directly after a cycle that was degraded for
\* staleness and alerted it
StaysStale ==
    /\ cycles' = cycles + 1
    /\ status = 500 /\ StaleAlerted(sent)
    /\ status' = 500 /\ ~FreshNow'

ScanFails == cycles' = cycles + 1 /\ error' \in {"query", "no_blocks"}

\* C24: the health alert message is sent only on the transition into degraded (a
\* degraded cycle directly after a cycle already degraded for the same cause, e.g.
\* stale data, sends no new alert), and an alert message is sent on every cycle
\* whose scan fails.
C24_AlertOnTransition ==
    [][/\ StaysStale => ~StaleAlerted(sent')
       /\ ScanFails => sent' # <<>>]_vars

-----------------------------------------------------------------------------
(* HealthReporter: the liveness ping of a cycle *)

-----------------------------------------------------------------------------
(* BatchFlusher: failed batch writes *)

\* flush_buffer raises to batch_flush_worker: the step that ends the except branch
FlusherCatches ==
    /\ fb["flusher"].pc = "failed"
    /\ fb'["flusher"].pc # "failed"
    /\ ~exited'

\* the worker's next tick with records in the buffer
FlusherTicks ==
    /\ fb["flusher"].pc = "acquire"
    /\ fb'["flusher"].pc # "acquire"
    /\ block_buffer # <<>>
    /\ ~exited'

C27_DegradedWriteEscalated ==
    consecutive_failures > MAX_CONSECUTIVE_FAILURES =>
        (sent # <<>> \/ \E i \in 1 .. Len(pings) : pings[i].endpoint = "/fail")

-----------------------------------------------------------------------------
(* MempoolCollector: rate limiting *)

\* the attempt just made received a 429 from one of the two endpoints
RateLimited ==
    /\ Len(mp_responses') = Len(mp_responses) + 1
    /\ LET last == mp_responses'[Len(mp_responses')]
       IN  "too_many_requests" \in {last.mempool, last.fees}

\* C28: a 429 response on either endpoint fails collect_snapshot immediately with
\* MempoolRateLimitException, after that single attempt and without a retry, at
\* every position among the (at most 3) attempts.
C28_RateLimitNotRetried ==
    [][RateLimited =>
        mp_result' = "MempoolRateLimitException" /\ mp_attempt' = mp_attempt]_vars

-----------------------------------------------------------------------------
(* main_loop: the reconnect counter *)

\* a notification received over the current connection is being handled: the
\* connection was established and the subscription confirmed
ConnectionEstablished ==
    /\ MainRuns
    /\ mpc \in {"insert", "append", "update", "bf_fetch", "status"}

\* C29: the reconnect attempt counter is reset to zero after a successful
\* connection, so it counts consecutive failed attempts only: while a notification
\* of an established connection is being handled the counter is zero.
C29_RetryCountReset == ConnectionEstablished => retry_count = 0

-----------------------------------------------------------------------------
(* backfill_inline: a key that fails *)

FailedOutcomes == {"fetch_raised", "insert_raised"}

\* a key of the inline backfill has just failed: its fetch or its insert raised
BackfillKeyFails ==
    /\ Len(bf_log') = Len(bf_log) + 1
    /\ bf_log'[Len(bf_log')].outcome \in FailedOutcomes

\* C30: during an inline backfill of [c, k-1], a key j whose fetch or insert raises
\* is added to missed_blocks and the backfill goes on with key j + 1 (no reconnect is
\* counted, the cursor is untouched until the end); when the backfill returns every
\* key up to k - 1 has been attempted and the cursor is set to k + 1.
C30_FailedKeyTrackedBackfillGoesOn ==
    [][/\ BackfillKeyFails =>
            LET j == bf_log'[Len(bf_log')].block_num
            IN  /\ j \in Range(missed_blocks')
                /\ mpc' = "bf_fetch"
                /\ bf_next' = j + 1
                /\ retry_count' = retry_count
                /\ expected_next_block' = expected_next_block
       /\ BackfillEnds =>
            /\ bf_next = msg
            /\ {bf_log[i].block_num : i \in 1 .. Len(bf_log)}
                    = expected_next_block .. (msg - 1)
            /\ expected_next_block' = msg + 1]_vars

\* a backfill has returned in which a key failed and the key after it was still
\* attempted
C30_Witness ==
    /\ mpc = "status"
    /\ expected_next_block = msg + 1
    /\ \E i \in 1 .. (Len(bf_log) - 1) :
            /\ bf_log[i].outcome \in FailedOutcomes
            /\ bf_log[i].block_num \in Range(missed_blocks)
            /\ bf_log[i + 1].block_num = bf_log[i].block_num + 1

-----------------------------------------------------------------------------
(* GapScanner: the count pre-check against the consecutive-delta query *)

\* the gap lists the consecutive-delta query (the window-function query and the loop
\* over its rows) yields when it is run on sink content s, whatever the counts say
DeltaQuery(s) ==
    {[i \in 1 .. Len(rows) |-> GapDict(rows[i])] : rows \in GapQueryResults(s)}

\* C31: the count vs. (max - min + 1) pre-check only short-circuits: for every sink
\* content, the list a scan returns is one the consecutive-delta query returns when
\* it is run unconditionally; the query is skipped only when it would return no
\* range.
C31_PreCheckOnlyShortCircuits == ScanReturned => gaps \in DeltaQuery(sink)

-----------------------------------------------------------------------------
(* SequenceCursor: direction of the cursor *)

\* C32: the sequence cursor never decreases: once set, for every resolved key
\* processed, in any delivery order, expected_next_block after the step is >= its
\* value before, so that keys the cursor has passed are not treated as a gap again.
C32_CursorNeverDecreases ==
    [][expected_next_block # NoBlock =>
          /\ expected_next_block' # NoBlock
          /\ expected_next_block' >= expected_next_block]_vars

-----------------------------------------------------------------------------
(* StreamIngestor: every notified key is accounted for *)

\* the keys that are accounted for: held by the buffer or the sink, or in
\* missed_blocks
AccountedFor == Inserted \cup Range(missed_blocks)

\* the processing of the well-formed notification for key msg ends: the receive loop
\* goes back to take the next message
NotificationProcessed == msg # NoBlock /\ mpc # "recv" /\ mpc' = "recv"

\* C33: after a well-formed notification for key k has been processed, k is accounted
\* for: its record has been appended to the buffer (or written to the sink), or k is
\* in missed_blocks; the same holds for every key of an inline backfill when the
\* backfill returns.  No key is silently dropped, also when the fetch returns null.
C33_NoKeyDropped ==
    [][/\ NotificationProcessed => msg \in AccountedFor'
       /\ BackfillEnds =>
            \A i \in 1 .. Len(bf_log) : bf_log[i].block_num \in AccountedFor']_vars

-----------------------------------------------------------------------------
(* graceful_shutdown and the buffer lock *)

\* graceful_shutdown waits in flush_buffer at "with buffer_lock:" for a lock held by
\* the main thread, the thread the handler itself runs on and has suspended
HandlerWaitsForMain ==
    /\ hpc = "running"
    /\ fb["handler"].pc = "acquire"
    /\ buffer_lock = "main"

\* C34: the shutdown handler always runs to completion: wherever the termination
\* signal finds the ingestion path, also inside insert_block's "with buffer_lock:",
\* the handler is never left waiting for the buffer lock of the thread it
\* interrupted, so the flush and the exit follow.
C34_ShutdownNeverDeadlocks == ~HandlerWaitsForMain

-----------------------------------------------------------------------------
(* GapTracker: what 'resolved' means *)

\* every key of the tracked range is present in the sink
Filled(tracked) == \A k \in tracked.gap_start .. tracked.gap_end : k \in sink

\* C35: a tracked range (start, end) is classified resolved, its row deleted and its
\* 'resolved' notification produced, only when every key of [start, end] is present
\* in the sink at that scan; a range that is partly filled, or that is only missing
\* from the list the scan returned, is not.  (The sink only grows, so a key absent
\* now was absent at the scan.)
C35_ResolvedOnlyWhenFilled ==
    \A i \in 1 .. Len(resolved_gaps) : Filled(resolved_gaps[i])

-----------------------------------------------------------------------------
(* GapTracker and AlertChannel: tracking writes against delivered alerts *)

\* the alert with this title for the range of a row was delivered in the last cycle
Delivered(title, row) == Alert(title, <<row.gap_start, row.gap_end>>) \in Range(sent)

\* C36: tracking state and delivered alerts stay in step: the entries the last cycle
\* marked notified (persistent_gaps) or deleted as resolved (resolved_gaps) are
\* entries whose 'persistent' or 'resolved' alert was delivered in that cycle, so
\* that an alert whose sending fails is still due in a later cycle.
C36_TrackingFollowsDelivery ==
    /\ \A i \in 1 .. Len(persistent_gaps) : Delivered("PERSISTENT GAP", persistent_gaps[i])
    /\ \A i \in 1 .. Len(resolved_gaps) : Delivered("GAP RESOLVED", resolved_gaps[i])

-----------------------------------------------------------------------------
(* GapTracker under overlapping invocations *)

\* the ranges of a list of tracking rows
RowKeys(list) == {<<list[i].gap_start, list[i].gap_end>> : i \in 1 .. Len(list)}

\* the latest invocations of the two triggers overlapped in time
Overlapped == \A p \in Triggers : inv[p].overlaps

\* C37: two scan+track cycles that overlap in time, a scheduled and an on-demand run
\* on the same sink and tracking table, do not both fire a 'persistent' alert, and do
\* not both fire a 'resolved' alert, for the same range.
C37_NoDoubleAlert ==
    Overlapped =>
        /\ RowKeys(inv["scheduled"].persistent_gaps)
              \cap RowKeys(inv["on_demand"].persistent_gaps) = {}
        /\ RowKeys(inv["scheduled"].resolved_gaps)
              \cap RowKeys(inv["on_demand"].resolved_gaps) = {}

-----------------------------------------------------------------------------
(* SequenceCursor across reconnects *)

\* main_loop has caught the loss of a connection, or seen it closed, and calls
\* subscribe_to_blocks again
Reconnects == mpc = "recv" /\ mpc' = "recv" /\ retry_count' # retry_count

\* a step of update_expected_block or of the backfill_inline it calls
InUpdateExpected == mpc \in {"update", "bf_fetch"}

\* C38: the cursor survives a transport reconnect within one process.  A reconnect
\* leaves expected_next_block and missed_blocks as they were, and the cursor changes
\* in update_expected_block only, so the first resolved key k after the reconnect is
\* compared with the cursor from before the disconnect: for k above it the gap
\* [cursor, k-1] is backfilled inline from the cursor on (every key up to k-1 tried
\* in order) or, when larger than the threshold, added to missed_blocks; the cursor
\* is not seeded again.
C38_CursorSurvivesReconnect ==
    [][/\ Reconnects =>
            /\ expected_next_block' = expected_next_block
            /\ missed_blocks' = missed_blocks
       /\ (~InUpdateExpected /\ ~exited') => expected_next_block' = expected_next_block
       /\ SmallGap => (mpc' = "bf_fetch" /\ bf_next' = expected_next_block)
       /\ BackfillEnds =>
            /\ Len(bf_log) = msg - expected_next_block
            /\ \A i \in 1 .. Len(bf_log) : bf_log[i].block_num = expected_next_block + i - 1
       /\ LargeGap =>
            \A j \in expected_next_block .. (msg - 1) : j \in Range(missed_blocks')]_vars

\* a connection was lost after the cursor was set, and the next resolved key is above
\* the cursor: the inline backfill is about to start at the cursor
C38_Witness ==
    /\ retry_count > 0
    /\ received = 2
    /\ mpc = "bf_fetch"
    /\ bf_log = <<>>
    /\ expected_next_block # NoBlock
    /\ bf_next = expected_next_block
    /\ msg > expected_next_block

-----------------------------------------------------------------------------
(* GapTrackingEntry: first_seen *)

\* the age of the entry of range k at the latest invocation
Age(k) == now - gap_tracking[k].first_seen

\* C39: first_seen of a tracking entry never changes while the entry exists: an entry
\* that is in the table before and after a step has the first_seen it had, whether
\* the step's write was a last_seen upsert or the mark-as-notified write, so its age
\* now - first_seen grows by the time between the two scans.
C39_FirstSeenKept ==
    [][\A k \in DOMAIN gap_tracking \cap DOMAIN gap_tracking' :
          /\ gap_tracking'[k].first_seen = gap_tracking[k].first_seen
          /\ Age(k)' = Age(k) + (now' - now)]_vars

\* an entry whose latest write is a last_seen upsert (notified is false) made when
\* it was older than the grace period, which happens only after mark_gap_notified
\* has written it: both writes have stored its first_seen again
C39_Witness ==
    \E k \in DOMAIN gap_tracking :
        /\ ~gap_tracking[k].notified
        /\ gap_tracking[k].last_seen - gap_tracking[k].first_seen > GAP_GRACE_PERIOD_SECONDS

=============================================================================
